---- MODULE Spec2Model ----
(***************************************************************************)
(* Capability / tool lifecycle layer of dev_ai (adept_ai).                 *)
(*                                                                         *)
(* The specifications share the variables below:                           *)
(*   SpecBuilder  - AgentBuilder: capability flags, system prompt render,  *)
(*                  tool lists and the enable_capability meta-tool         *)
(*   SpecSession  - one remote (MCP) capability: setup / teardown, the     *)
(*                  cached tool list, provider notifications               *)
(*   SpecTool     - Tool.call, the framework wrapper and the adapted       *)
(*                  function of a remote tool                              *)
(* Python strings built by f-strings and "+" are sequences of tokens.      *)
(***************************************************************************)
EXTENDS Integers, Sequences, FiniteSets, TLC

VARIABLES
    \* ---- AgentBuilder ----
    variant,          \* which AgentBuilder revision: "dev_ai" or "framework"
    enabled,          \* Capability.enabled, per registered capability
    in_context,       \* the caller is inside `async with builder`
    context_active,   \* MCPCapability._context_active (lazy remote capabilities)
    mcp_active,       \* lazy: lifecycle manager active; eager: _mcp_session is not None
    pydantic_tools,   \* the list get_pydantic_ai_tools() returned, kept by the agent
    tool_enabled,     \* history: capabilities switched on by enable_capability, not disabled since
    trip,             \* history: how far an enable / disable / enable round of one capability
                      \* has got, and what get_tools() gave after the first and the last enable
    scope,            \* history of the last `async with builder`: its phase, the capabilities
                      \* whose setup() was started and those whose teardown() was called,
                      \* and the order in which the two loops made their calls
    establishment,    \* history, per capability: whether opening its session was started
                      \* since the scope was entered and since its last teardown:
                      \* "none", "once" or "again"
    \* ---- one remote capability (BaseMCPCapability) ----
    pc,               \* where the owning task is: "idle", inside setup() or teardown(), or
                      \* awaiting list_tools
    mcp_client,       \* _mcp_client, the transport: "None", "entering", "open", "closing", "closed"
    mcp_session,      \* _mcp_session: "None", "entered", "initialized", "closing", "closed"
    lifecycle,        \* history: "new", "up" (setup returned), "failed" (setup raised), "down"
    allowed_tools,    \* _allowed_tools: [none |-> TRUE] or the set of allowed names
    include_resources,\* _include_resources: "False", "True" or "predicate"
    provider_version, \* which tool list the provider currently serves
    notification,     \* a server notification received and not yet handled
    cached_tools,     \* _cached__get_allowed_mcp_tools: Absent or the list
    cached_resources, \* _cached_list_all_resources: Absent or the list
    fetch_version,    \* the provider list an in-flight list_tools query will answer with
    completed_since,  \* history: an accessor call completed since the last notification or setup
    \* ---- a tool and its wrappers ----
    tool,             \* the Tool under call: its function's behaviour and flags
    prompt_content,   \* ctx.messages[0].parts[0].content
    \* ---- a conversation loop ----
    run_variant,      \* which loop: "examples/pydantic_ai", "examples/langchain" or "dev_ai/run"
    loop_pc,          \* "start", "ask" (at Prompt.ask), "top" (at `while True:`), "done"
    prompt,           \* the local `prompt`, as tokens
    message_history,  \* the prompts handed to the agent so far
    builder_scope,    \* the `async with get_agent_builder()` block: "none", "entered", "exited"
    \* ---- the file system under a FileSystemCapability ----
    files,            \* the files that exist, each by its location from the top directory
    \* ---- a DirectoryTree ----
    root_item,        \* the tree: the directories whose item is expanded (has children)
    tree_cache,       \* _tree_cache: None or the text format_as_tree() built
    paths_cache,      \* _paths_cache: None or the text format_as_paths() built
    \* ---- shared ----
    last              \* the last operation and what it returned or raised

builder_vars == <<variant, enabled, in_context, context_active, mcp_active,
                  pydantic_tools, tool_enabled, scope, trip, establishment>>

session_vars == <<pc, mcp_client, mcp_session, lifecycle, allowed_tools, include_resources,
                  provider_version, notification, cached_tools, cached_resources,
                  fetch_version, completed_since>>

tool_vars == <<tool, prompt_content>>

loop_vars == <<run_variant, loop_pc, prompt, message_history, builder_scope>>

tree_vars == <<root_item, tree_cache, paths_cache>>

vars == <<builder_vars, session_vars, tool_vars, loop_vars, files, tree_vars, last>>

Range(s) == {s[k] : k \in 1..Len(s)}

NoOp == [op |-> "none", arg |-> "", outcome |-> "none", value |-> <<>>]

\* no enable / disable round is under way
NoTrip == [cap |-> 0, stage |-> 0,
           first |-> [outcome |-> "none", value |-> <<>>],
           again |-> [outcome |-> "none", value |-> <<>>]]

(***************************************************************************)
(* The registered capabilities                                             *)
(***************************************************************************)
NumCaps == 3

\* kind: "local" FileSystemCapability, "lazy" MCPCapability (session opened
\* only while enabled), "eager" BaseMCPCapability (session opened by setup)
CapabilityTable ==
    << [name |-> "file_system", kind |-> "local",
        tools |-> <<"create_file", "read_file", "expand_directory">>],
       [name |-> "github_integration", kind |-> "lazy",
        tools |-> <<"search_repositories", "read_file", "search_code">>],
       [name |-> "GitHub_Integration", kind |-> "eager",
        tools |-> <<"search_repositories", "search_code">>],
       [name |-> "web_search", kind |-> "local",
        tools |-> <<"search_web">>] >>

capabilities ==
    [i \in 1..NumCaps |-> CapabilityTable[((i - 1) % Len(CapabilityTable)) + 1]]

Caps == 1..NumCaps

\* names the agent may pass to the meta-tool
RequestNames == {"file_system", "FILE_SYSTEM", "github_integration",
                 "GitHub_Integration", "shell"}

\* str.lower() on the names in use
Lower(s) ==
    CASE s = "FILE_SYSTEM" -> "file_system"
      [] s = "QUIT" -> "quit"
      [] s = "Exit" -> "exit"
      [] s = "Q" -> "q"
      [] s = "GitHub_Integration" -> "github_integration"
      [] OTHER -> s

NameMatchesCaseSensitive(cap_name, name) == cap_name = name

\* capability.name.lower() == name.lower()
NameMatches(cap_name, name) == Lower(cap_name) = Lower(name)

\* the for loop of enable_capability: the first capability from index i on
\* whose name matches, 0 when the loop falls through
RECURSIVE FindCapability(_, _)
FindCapability(name, i) ==
    IF i > NumCaps THEN 0
    ELSE IF NameMatches(capabilities[i].name, name) THEN i
    ELSE FindCapability(name, i + 1)

RECURSIVE SelectCaps(_, _)
SelectCaps(flag, i) ==
    IF i > NumCaps THEN <<>>
    ELSE IF enabled[i] = flag THEN <<i>> \o SelectCaps(flag, i + 1)
    ELSE SelectCaps(flag, i + 1)

\* [c for c in self._capabilities if c.enabled]
enabled_capabilities == SelectCaps(TRUE, 1)

disabled_capabilities_copy_paste == SelectCaps(TRUE, 1)

\* [c for c in self._capabilities if not c.enabled]
disabled_capabilities == SelectCaps(FALSE, 1)

ExceptionOfVariant == IF variant = "dev_ai" THEN "ToolError" ELSE "ValueError"

\* AgentBuilder.enable_capability(name): what it does to the flags and what
\* it returns or raises
enable_capability(name) ==
    LET c == FindCapability(name, 1) IN
    IF c # 0
    THEN [flags |-> [enabled EXCEPT ![c] = TRUE], found |-> c, outcome |-> "return",
          value |-> <<"Capability ", name, " enabled">>]
    ELSE [flags |-> enabled, found |-> 0, outcome |-> ExceptionOfVariant,
          value |-> <<"Capability ", name, " not found">>]

CaughtExceptionWrongClass == "ToolCallError"

\* the exception class named by `except ToolError as e`
CaughtException == "ToolError"

\* Tool.call / wrap_tool_for_pydantic._wrapper around a tool function result:
\* the except clause turns that one exception type into a returned string,
\* f"Error: {str(e)}"
CallWrapper(res) ==
    IF res.outcome = CaughtException
    THEN [outcome |-> "return", value |-> <<"Error: ">> \o res.value]
    ELSE [outcome |-> res.outcome, value |-> res.value]

(***************************************************************************)
(* Tool lists                                                              *)
(***************************************************************************)
MetaToolName == "enable_capability"

\* _get_enable_capabilities_tool(): the enum is computed when the tool is built
EnableCapabilitiesTool ==
    [name |-> MetaToolName,
     enum |-> [k \in 1..Len(disabled_capabilities) |->
                   capabilities[disabled_capabilities[k]].name]]

\* capability.get_tools(): a remote capability needs its session
CapGetTools(c) ==
    IF capabilities[c].kind = "local" \/ mcp_active[c]
    THEN [outcome |-> "return", value |-> capabilities[c].tools]
    ELSE [outcome |-> "UninitialisedMCPSessionError", value |-> <<>>]

RECURSIVE GatherTools(_, _)
\* tools.extend(capability_tools) over the given capabilities, in order
GatherTools(cs, k) ==
    IF k > Len(cs) THEN <<>>
    ELSE CapGetTools(cs[k]).value \o GatherTools(cs, k + 1)

AnyRaises(cs) == \E k \in 1..Len(cs) : CapGetTools(cs[k]).outcome # "return"

\* AgentBuilder.get_tools()
get_tools ==
    IF AnyRaises(enabled_capabilities)
    THEN [outcome |-> "UninitialisedMCPSessionError", value |-> <<>>]
    ELSE [outcome |-> "return",
          value |-> (IF disabled_capabilities # <<>> THEN <<MetaToolName>> ELSE <<>>)
                    \o GatherTools(enabled_capabilities, 1)]

LateBoundCapability(c) == NumCaps

\* `lambda cap=capability: cap.enabled` / partial(enable_tool, capability=capability):
\* the capability the predicate of a tool registered in iteration c reads
CapturedCapability(c) == c

\* one framework tool per tool of capability c; enabled_by = 0 stands for the
\* constant `enabled=True`
PydanticToolsOf(c) ==
    [k \in 1..Len(capabilities[c].tools) |->
        [name |-> capabilities[c].tools[k], capability |-> c,
         enabled_by |-> CapturedCapability(c), enum |-> <<>>]]

RECURSIVE AllPydanticTools(_)
AllPydanticTools(c) ==
    IF c > NumCaps THEN <<>> ELSE PydanticToolsOf(c) \o AllPydanticTools(c + 1)

AllCaps == [c \in 1..NumCaps |-> c]

\* AgentBuilder.get_pydantic_ai_tools()
get_pydantic_ai_tools ==
    IF AnyRaises(AllCaps)
    THEN [status |-> "raised", tools |-> <<>>]
    ELSE [status |-> "built",
          tools |-> (IF variant = "dev_ai"
                     THEN << [name |-> MetaToolName, capability |-> 0, enabled_by |-> 0,
                              enum |-> EnableCapabilitiesTool.enum] >>
                     ELSE <<>>)
                    \o AllPydanticTools(1)]

\* to_pydanticai_tool.enable_tool / get_pydantic_ai_tools.enable_tool: the
\* prepare predicate, evaluated at each dispatch
Prepare(t) == IF t.enabled_by = 0 THEN TRUE ELSE enabled[t.enabled_by]

\* the registered tools the framework offers at a dispatch in the current state
AdmittedTools == SelectSeq(pydantic_tools.tools, Prepare)

(***************************************************************************)
(* Operations                                                              *)
(***************************************************************************)
\* MCPLifecycleManager.setup() of capability c: its session becomes active
LifecycleSetup(act, c) == [act EXCEPT ![c] = TRUE]

\* MCPLifecycleManager.teardown() of capability c: its session is no longer active
LifecycleTeardown(act, c) == [act EXCEPT ![c] = FALSE]

\* MCPLifecycleManager.setup() of capability c starts opening a session: the
\* first time since its teardown, or once more
LifecycleStarts(est, c) ==
    [est EXCEPT ![c] = IF est[c] = "none" THEN "once" ELSE "again"]

FlagToggled(flag) == ~flag

\* `self.enabled = True`: the flag after enable(), given the flag before
FlagAfterEnable(flag) == TRUE

\* Capability.enable(); MCPCapability.enable() also opens the session when the
\* context is active
Enable(c) ==
    /\ enabled' = [enabled EXCEPT ![c] = FlagAfterEnable(enabled[c])]
    /\ mcp_active' = IF capabilities[c].kind = "lazy" /\ context_active[c]
                     THEN LifecycleSetup(mcp_active, c) ELSE mcp_active
    /\ establishment' = IF capabilities[c].kind = "lazy" /\ context_active[c]
                        THEN LifecycleStarts(establishment, c) ELSE establishment
    /\ last' = [op |-> "enable", arg |-> capabilities[c].name, outcome |-> "return",
                value |-> <<>>]
    /\ trip' = IF trip.cap = c /\ trip.stage = 2
               THEN [trip EXCEPT !.stage = 3, !.again = get_tools']
               ELSE [cap |-> c, stage |-> 1, first |-> get_tools', again |-> get_tools']
    /\ UNCHANGED <<variant, scope, in_context, context_active, pydantic_tools, tool_enabled, session_vars, tool_vars,
                   loop_vars, files, tree_vars>>

\* Capability.disable()
Disable(c) ==
    /\ enabled' = [enabled EXCEPT ![c] = FALSE]
    /\ tool_enabled' = tool_enabled \ {c}
    /\ last' = [op |-> "disable", arg |-> capabilities[c].name, outcome |-> "return",
                value |-> <<>>]
    /\ trip' = IF trip.cap = c /\ trip.stage \in {1, 2}
               THEN [trip EXCEPT !.stage = 2]
               ELSE NoTrip
    /\ UNCHANGED <<variant, establishment, scope, in_context, context_active, mcp_active, pydantic_tools, session_vars, tool_vars,
                   loop_vars, files, tree_vars>>

\* the agent invokes the enable_capability meta-tool with `name`
EnableCapabilityTool(name) ==
    LET res == enable_capability(name)
        out == CallWrapper(res)
    IN /\ enabled' = res.flags
       /\ tool_enabled' = IF res.found # 0 THEN tool_enabled \cup {res.found}
                          ELSE tool_enabled
       /\ last' = [op |-> "enable_capability", arg |-> name, outcome |-> out.outcome,
                   value |-> out.value]
       /\ trip' = IF res.found # 0 THEN NoTrip ELSE trip
       /\ UNCHANGED <<variant, establishment, scope, in_context, context_active, mcp_active, pydantic_tools, session_vars, tool_vars,
                   loop_vars, files, tree_vars>>

\* AgentBuilder.get_system_prompt(): the lists handed to the template
GetSystemPrompt ==
    /\ last' = [op |-> "get_system_prompt", arg |-> "", outcome |-> "return",
                value |-> [enabled_capabilities |-> enabled_capabilities,
                           disabled_capabilities |-> disabled_capabilities]]
    /\ UNCHANGED <<trip, variant, establishment, scope, enabled, in_context, context_active, mcp_active,
                   pydantic_tools, tool_enabled, session_vars, tool_vars,
                   loop_vars, files, tree_vars>>

\* AgentBuilder.get_tools(), called inside the builder context
GetTools ==
    /\ in_context
    /\ last' = [op |-> "get_tools", arg |-> "", outcome |-> get_tools.outcome,
                value |-> get_tools.value]
    /\ UNCHANGED <<trip, variant, establishment, scope, enabled, in_context, context_active, mcp_active,
                   pydantic_tools, tool_enabled, session_vars, tool_vars,
                   loop_vars, files, tree_vars>>

\* AgentBuilder.get_pydantic_ai_tools(), called inside the builder context;
\* the agent keeps the list it returns
GetPydanticAiTools ==
    /\ in_context
    /\ pydantic_tools' = IF get_pydantic_ai_tools.status = "built"
                         THEN get_pydantic_ai_tools ELSE pydantic_tools
    /\ last' = [op |-> "get_pydantic_ai_tools", arg |-> "",
                outcome |-> IF get_pydantic_ai_tools.status = "built" THEN "return"
                            ELSE "UninitialisedMCPSessionError",
                value |-> <<>>]
    /\ UNCHANGED <<trip, variant, establishment, scope, enabled, in_context, context_active, mcp_active, tool_enabled, session_vars, tool_vars,
                   loop_vars, files, tree_vars>>

\* what the setup and teardown loops work on
BuilderSessions == [ctx |-> context_active, act |-> mcp_active, est |-> establishment]

\* the same at the start of __aenter__, where the history of a scope begins
EnteringSessions ==
    [ctx |-> context_active, act |-> mcp_active, est |-> [c \in Caps |-> "none"]]

\* capability.setup() for each kind, applied to context_active, mcp_active and
\* establishment
SetupCap(c, st) ==
    CASE capabilities[c].kind = "lazy" ->
            [ctx |-> [st.ctx EXCEPT ![c] = TRUE],
             act |-> IF enabled[c] THEN LifecycleSetup(st.act, c) ELSE st.act,
             est |-> IF enabled[c] THEN LifecycleStarts(st.est, c) ELSE st.est]
      [] capabilities[c].kind = "eager" ->
            [ctx |-> st.ctx, act |-> [st.act EXCEPT ![c] = TRUE],
             est |-> [st.est EXCEPT ![c] = IF @ = "none" THEN "once" ELSE "again"]]
      [] OTHER -> st

\* capability.teardown() for each kind; BaseMCPCapability.teardown() closes the
\* session but leaves _mcp_session set
TeardownCap(c, st) ==
    CASE capabilities[c].kind = "lazy" ->
            [ctx |-> [st.ctx EXCEPT ![c] = FALSE],
             act |-> LifecycleTeardown(st.act, c),
             est |-> [st.est EXCEPT ![c] = "none"]]
      [] capabilities[c].kind = "eager" ->
            [ctx |-> st.ctx, act |-> st.act, est |-> [st.est EXCEPT ![c] = "none"]]
      [] OTHER -> st

RECURSIVE LoopCalls(_, _)
\* `for c in self._capabilities: await c.setup()` (and the same loop over
\* teardown()): the calls the loop makes from capability c up to k-1, one
\* after the other, each awaited before the next
LoopCalls(c, k) == IF c >= k THEN <<>> ELSE <<c>> \o LoopCalls(c + 1, k)

RECURSIVE SetupAll(_, _)
SetupAll(c, st) == IF c > NumCaps THEN st ELSE SetupAll(c + 1, SetupCap(c, st))

RECURSIVE TeardownAll(_, _)
TeardownAll(c, st) == IF c > NumCaps THEN st ELSE TeardownAll(c + 1, TeardownCap(c, st))

\* AgentBuilder.__aenter__ with every provider reachable
Enter ==
    /\ ~in_context
    /\ in_context' = TRUE
    /\ LET st == SetupAll(1, EnteringSessions)
       IN context_active' = st.ctx /\ mcp_active' = st.act /\ establishment' = st.est
    /\ scope' = [phase |-> "inside", started |-> Caps, torn_down |-> {},
                 setup_calls |-> LoopCalls(1, NumCaps + 1), teardown_calls |-> <<>>]
    /\ last' = [op |-> "aenter", arg |-> "", outcome |-> "return", value |-> <<>>]
    /\ trip' = NoTrip
    /\ UNCHANGED <<variant, enabled, pydantic_tools, tool_enabled, session_vars, tool_vars,
                   loop_vars, files, tree_vars>>

\* AgentBuilder.__aexit__
Exit ==
    /\ in_context
    /\ in_context' = FALSE
    /\ LET st == TeardownAll(1, BuilderSessions)
       IN context_active' = st.ctx /\ mcp_active' = st.act /\ establishment' = st.est
    /\ scope' = [scope EXCEPT !.phase = "ended", !.torn_down = Caps,
                              !.teardown_calls = LoopCalls(1, NumCaps + 1)]
    /\ last' = [op |-> "aexit", arg |-> "", outcome |-> "return", value |-> <<>>]
    /\ trip' = NoTrip
    /\ UNCHANGED <<variant, enabled, pydantic_tools, tool_enabled, session_vars, tool_vars,
                   loop_vars, files, tree_vars>>

\* setup() / teardown() of a remote capability reach a provider and may raise;
\* Capability.setup / teardown of a local capability are `pass`
IsRemote(c) == capabilities[c].kind # "local"

RECURSIVE SetupUpTo(_, _, _)
\* the loop of __aenter__ over the capabilities c .. k-1
SetupUpTo(c, k, st) == IF c >= k THEN st ELSE SetupUpTo(c + 1, k, SetupCap(c, st))

RECURSIVE TeardownUpTo(_, _, _)
\* the loop of __aexit__ over the capabilities c .. k-1
TeardownUpTo(c, k, st) == IF c >= k THEN st ELSE TeardownUpTo(c + 1, k, TeardownCap(c, st))

\* setup() of capability k raised while opening its session: MCPCapability has
\* set _context_active before; nothing became active
SetupRaised(k, st) ==
    IF capabilities[k].kind = "lazy"
    THEN [ctx |-> [st.ctx EXCEPT ![k] = TRUE], act |-> st.act,
          est |-> LifecycleStarts(st.est, k)]
    ELSE [ctx |-> st.ctx, act |-> st.act,
          est |-> [st.est EXCEPT ![k] = IF @ = "none" THEN "once" ELSE "again"]]

\* teardown() of capability k raised while closing its session: MCPCapability
\* has cleared _context_active before
TeardownRaised(k, st) ==
    IF capabilities[k].kind = "lazy"
    THEN [ctx |-> [st.ctx EXCEPT ![k] = FALSE], act |-> st.act,
          est |-> [st.est EXCEPT ![k] = "none"]]
    ELSE [ctx |-> st.ctx, act |-> st.act, est |-> [st.est EXCEPT ![k] = "none"]]

\* AgentBuilder.__aenter__ in which setup() of capability k raises: the
\* exception leaves __aenter__, the body does not run and `async with` does
\* not call __aexit__
EnterFails(k) ==
    /\ ~in_context
    /\ IsRemote(k)
    /\ capabilities[k].kind = "lazy" => enabled[k]
    /\ LET st == SetupRaised(k, SetupUpTo(1, k, EnteringSessions))
       IN context_active' = st.ctx /\ mcp_active' = st.act /\ establishment' = st.est
    /\ scope' = [phase |-> "ended", started |-> 1..k, torn_down |-> {},
                 setup_calls |-> LoopCalls(1, k + 1), teardown_calls |-> <<>>]
    /\ last' = [op |-> "aenter", arg |-> capabilities[k].name, outcome |-> "OSError",
                value |-> <<>>]
    /\ trip' = NoTrip
    /\ UNCHANGED <<variant, enabled, in_context, pydantic_tools, tool_enabled,
                   session_vars, tool_vars,
                   loop_vars, files, tree_vars>>

\* AgentBuilder.__aexit__ called because the body raised: the same loop; it
\* returns None, so the body's exception goes on
ExitBodyRaised ==
    /\ in_context
    /\ in_context' = FALSE
    /\ LET st == TeardownAll(1, BuilderSessions)
       IN context_active' = st.ctx /\ mcp_active' = st.act /\ establishment' = st.est
    /\ scope' = [scope EXCEPT !.phase = "ended", !.torn_down = Caps,
                              !.teardown_calls = LoopCalls(1, NumCaps + 1)]
    /\ last' = [op |-> "aexit", arg |-> "body raised", outcome |-> "Exception",
                value |-> <<>>]
    /\ trip' = NoTrip
    /\ UNCHANGED <<variant, enabled, pydantic_tools, tool_enabled, session_vars, tool_vars,
                   loop_vars, files, tree_vars>>

\* AgentBuilder.__aexit__ in which teardown() of capability k raises: the
\* exception leaves the loop
ExitTeardownFails(k) ==
    /\ in_context
    /\ IsRemote(k)
    /\ mcp_active[k]
    /\ in_context' = FALSE
    /\ LET st == TeardownRaised(k, TeardownUpTo(1, k, BuilderSessions))
       IN context_active' = st.ctx /\ mcp_active' = st.act /\ establishment' = st.est
    /\ scope' = [scope EXCEPT !.phase = "ended", !.torn_down = 1..k,
                              !.teardown_calls = LoopCalls(1, k + 1)]
    /\ last' = [op |-> "aexit", arg |-> capabilities[k].name, outcome |-> "RuntimeError",
                value |-> <<>>]
    /\ trip' = NoTrip
    /\ UNCHANGED <<variant, enabled, pydantic_tools, tool_enabled, session_vars, tool_vars,
                   loop_vars, files, tree_vars>>

\* an InstanceCache attribute that is not set / that holds a list
Absent == [present |-> FALSE, value |-> <<>>]

Cached(list) == [present |-> TRUE, value |-> list]

\* tools=None / tools=[...]
NoAllowList == [none |-> TRUE, names |-> {}]

AllowList(names) == [none |-> FALSE, names |-> names]

\* no `async with builder` has been entered yet
NoScope == [phase |-> "outside", started |-> {}, torn_down |-> {},
            setup_calls |-> <<>>, teardown_calls |-> <<>>]

\* DirectoryTree(root_directory, max_directory_depth)
initial_directory_depth == 1

TreeRoot == <<"work">>

\* the entries of each directory on disk, in the order _build_directory_tree
\* sorts them: directories first, then files, by name
DirEntries(dir) ==
    CASE dir = <<"work">> -> <<"docs", "src", "notes.txt">>
      [] dir = <<"work", "docs">> -> <<"api">>
      [] dir = <<"work", "docs", "api">> -> <<"v1">>
      [] dir = <<"work", "src">> -> <<"pkg", "main.py">>
      [] dir = <<"work", "src", "pkg">> -> <<"deep">>
      [] dir = <<"work", "src", "pkg", "deep">> -> <<"x.py">>
      [] OTHER -> <<>>

TreeDirectories ==
    { <<"work">>, <<"work", "docs">>, <<"work", "docs", "api">>,
      <<"work", "docs", "api", "v1">>, <<"work", "src">>, <<"work", "src", "pkg">>,
      <<"work", "src", "pkg", "deep">> }

\* entry_path.is_dir()
IsDirectory(path) == path \in TreeDirectories

RECURSIVE BuildDirectoryTree(_, _)
\* _build_directory_tree(dir_path, depth): the directories that come out
\* expanded - dir_path itself and, while depth < initial_directory_depth, its
\* sub-directories built one level deeper
BuildDirectoryTree(dir, depth) ==
    {dir} \cup
    UNION { BuildDirectoryTree(Append(dir, DirEntries(dir)[k]), depth + 1) :
              k \in {j \in 1..Len(DirEntries(dir)) :
                        /\ IsDirectory(Append(dir, DirEntries(dir)[j]))
                        /\ depth < initial_directory_depth} }

\* a render cache holding None / holding a text (the list of its lines)
NoneText == [present |-> FALSE, value |-> <<>>]

TextOf(lines) == [present |-> TRUE, value |-> lines]

\* DirectoryTree.__init__
TreeIdle ==
    /\ root_item = BuildDirectoryTree(TreeRoot, 0)
    /\ tree_cache = NoneText
    /\ paths_cache = NoneText

BuilderIdle ==
    /\ variant = "dev_ai"
    /\ enabled = [c \in Caps |-> FALSE]
    /\ in_context = FALSE
    /\ context_active = [c \in Caps |-> FALSE]
    /\ mcp_active = [c \in Caps |-> FALSE]
    /\ pydantic_tools = [status |-> "none", tools |-> <<>>]
    /\ tool_enabled = {}
    /\ scope = NoScope
    /\ trip = NoTrip
    /\ establishment = [c \in Caps |-> "none"]

SessionIdle ==
    /\ pc = "idle"
    /\ mcp_client = "None"
    /\ mcp_session = "None"
    /\ lifecycle = "new"
    /\ allowed_tools = NoAllowList
    /\ include_resources = "False"
    /\ provider_version = 0
    /\ notification = "none"
    /\ cached_tools = Absent
    /\ cached_resources = Absent
    /\ fetch_version = 0
    /\ completed_since = FALSE

ToolIdle ==
    /\ tool = [coroutine |-> TRUE, raises |-> "none", text |-> <<>>,
               updates_system_prompt |-> FALSE]
    /\ prompt_content = <<>>

\* the files on disk before any tool call: one under the root, two outside
InitialFiles == {<<"work", "notes.txt">>, <<"secret.txt">>, <<"etc", "passwd">>}

LoopIdle ==
    /\ run_variant = "examples/pydantic_ai"
    /\ loop_pc = "start"
    /\ prompt = <<>>
    /\ message_history = <<>>
    /\ builder_scope = "none"

InitBuilder ==
    /\ files = InitialFiles
    /\ TreeIdle
    /\ SessionIdle
    /\ ToolIdle
    /\ LoopIdle
    /\ variant \in {"dev_ai", "framework"}
    /\ enabled \in [Caps -> BOOLEAN]
    /\ in_context = FALSE
    /\ context_active = [c \in Caps |-> FALSE]
    /\ mcp_active = [c \in Caps |-> FALSE]
    /\ pydantic_tools = [status |-> "none", tools |-> <<>>]
    /\ tool_enabled = {}
    /\ scope = NoScope
    /\ trip = NoTrip
    /\ establishment = [c \in Caps |-> "none"]
    /\ last = NoOp

NextBuilder ==
    \/ \E c \in Caps : Enable(c)
    \/ \E c \in Caps : Disable(c)
    \/ \E name \in RequestNames : EnableCapabilityTool(name)
    \/ GetSystemPrompt
    \/ GetTools
    \/ GetPydanticAiTools
    \/ Enter
    \/ Exit
    \/ \E k \in Caps : EnterFails(k)
    \/ ExitBodyRaised
    \/ \E k \in Caps : ExitTeardownFails(k)

SpecBuilder == InitBuilder /\ [][NextBuilder]_vars

(***************************************************************************)
(* One remote capability: BaseMCPCapability with its CustomClientSession   *)
(* and the InstanceCache of its list accessors.  The owning task runs one  *)
(* coroutine at a time (pc); the session's receive loop handles a          *)
(* notification at any of its suspension points.                           *)
(***************************************************************************)
MaxVersion == 2

ToolUniverse == <<"search_repositories", "delete_repository", "read_file", "search_code">>

\* the tool list the provider serves in its version v
ProviderTools(v) == SubSeq(ToolUniverse, 1, 1 + (v % Len(ToolUniverse)))

ExampleAllowList == {"search_repositories", "read_file", "search_code"}

\* the resources the provider lists, and the URI predicate of the configuration
ProviderResources == <<"repo://readme", "repo://secrets">>

UriPredicate(uri) == uri = "repo://readme"

FilterNothing(ts) == ts

\* [tool for tool in tools_result.tools
\*       if self._allowed_tools is None or tool.name in self._allowed_tools]
FilterAllowed(ts) ==
    SelectSeq(ts, LAMBDA t : allowed_tools.none \/ t \in allowed_tools.names)

IncludeEvery(uri) == TRUE

\* _should_include_resource
ShouldIncludeResource(uri) ==
    IF include_resources = "predicate" THEN UriPredicate(uri)
    ELSE include_resources = "True"

\* the mcp_session property: raises while _mcp_session is None
SessionIsNone == mcp_session = "None"

SessionHit(op, value) ==
    [op |-> op, arg |-> "", outcome |-> "return", value |-> value, requests |-> 0]

SessionRaise(op, exc, n) ==
    [op |-> op, arg |-> "", outcome |-> exc, value |-> <<>>, requests |-> n]

\* a request on a session that is not usable: written to the provider while
\* the handshake is missing, refused locally once the streams are closed
UnusableSession(op) ==
    IF mcp_session = "entered" THEN SessionRaise(op, "McpError", 1)
    ELSE SessionRaise(op, "ClosedResourceError", 0)

\* setup(): self._mcp_client = self._init_mcp_client(), then await its __aenter__
SetupBegin ==
    /\ pc = "idle"
    /\ lifecycle \in {"new", "failed", "down"}
    /\ mcp_client' = "entering"
    /\ pc' = "setup_client"
    /\ last' = [op |-> "setup", arg |-> "", outcome |-> "pending", value |-> <<>>,
                requests |-> 0]
    /\ UNCHANGED <<mcp_session, lifecycle, allowed_tools, include_resources,
                   provider_version, notification, cached_tools, cached_resources,
                   fetch_version, completed_since, builder_vars, tool_vars,
                   loop_vars, files, tree_vars>>

\* the transport opened: the session is constructed, assigned and entered
SetupTransportOpen ==
    /\ pc = "setup_client"
    /\ mcp_client' = "open"
    /\ mcp_session' = "entered"
    /\ pc' = "setup_initialize"
    /\ UNCHANGED <<lifecycle, allowed_tools, include_resources, provider_version,
                   notification, cached_tools, cached_resources, fetch_version,
                   completed_since, builder_vars, tool_vars, last,
                   loop_vars, files, tree_vars>>

\* opening the transport raised: setup() raises with _mcp_client assigned
SetupTransportFails ==
    /\ pc = "setup_client"
    /\ pc' = "idle"
    /\ lifecycle' = "failed"
    /\ last' = SessionRaise("setup", "OSError", 0)
    /\ UNCHANGED <<mcp_client, mcp_session, allowed_tools, include_resources,
                   provider_version, notification, cached_tools, cached_resources,
                   fetch_version, completed_since, builder_vars, tool_vars,
                   loop_vars, files, tree_vars>>

\* await self._mcp_session.initialize() returned: setup() returns
SetupInitialized ==
    /\ pc = "setup_initialize"
    /\ mcp_session' = "initialized"
    /\ pc' = "idle"
    /\ lifecycle' = "up"
    /\ completed_since' = FALSE
    /\ last' = SessionHit("setup", <<>>)
    /\ UNCHANGED <<mcp_client, allowed_tools, include_resources, provider_version,
                   notification, cached_tools, cached_resources, fetch_version,
                   builder_vars, tool_vars,
                   loop_vars, files, tree_vars>>

\* the handshake raised: setup() raises with _mcp_session assigned
SetupInitializeFails ==
    /\ pc = "setup_initialize"
    /\ pc' = "idle"
    /\ lifecycle' = "failed"
    /\ last' = SessionRaise("setup", "McpError", 1)
    /\ UNCHANGED <<mcp_client, mcp_session, allowed_tools, include_resources,
                   provider_version, notification, cached_tools, cached_resources,
                   fetch_version, completed_since, builder_vars, tool_vars,
                   loop_vars, files, tree_vars>>

TeardownOrderSwapped == <<"client", "session">>

\* teardown(): await self._mcp_session.__aexit__(...), then
\* await self._mcp_client.__aexit__(...) - what is closed first and second
TeardownOrder == <<"session", "client">>

\* teardown() up to its first suspension: self._mcp_session is read as an
\* attribute (None before any setup() assigned it), then the first __aexit__
\* is awaited
TeardownBegin ==
    /\ pc = "idle"
    /\ lifecycle \in {"up", "failed"}
    /\ IF SessionIsNone
       THEN /\ last' = SessionRaise("teardown", "AttributeError", 0)
            /\ UNCHANGED <<pc, mcp_client, mcp_session>>
       ELSE /\ pc' = "teardown_first"
            /\ mcp_session' = IF TeardownOrder[1] = "session" THEN "closing" ELSE mcp_session
            /\ mcp_client' = IF TeardownOrder[1] = "client" THEN "closing" ELSE mcp_client
            /\ last' = [op |-> "teardown", arg |-> "", outcome |-> "pending",
                        value |-> <<>>, requests |-> 0]
    /\ UNCHANGED <<lifecycle, allowed_tools, include_resources, provider_version,
                   notification, cached_tools, cached_resources, fetch_version,
                   completed_since, builder_vars, tool_vars, loop_vars, files, tree_vars>>

\* the first __aexit__ is over: when it raised, teardown() raises and the
\* second is never awaited; otherwise the second __aexit__ is awaited
TeardownFirstClosed(first_close_raises) ==
    /\ pc = "teardown_first"
    /\ notification' = "none"
    /\ IF first_close_raises
       THEN /\ mcp_session' = IF TeardownOrder[1] = "session" THEN "closed" ELSE mcp_session
            /\ mcp_client' = IF TeardownOrder[1] = "client" THEN "closed" ELSE mcp_client
            /\ pc' = "idle"
            /\ lifecycle' = "down"
            /\ last' = SessionRaise("teardown", "RuntimeError", 0)
       ELSE /\ mcp_session' = IF TeardownOrder[1] = "session" THEN "closed" ELSE "closing"
            /\ mcp_client' = IF TeardownOrder[1] = "client" THEN "closed" ELSE "closing"
            /\ pc' = "teardown_second"
            /\ UNCHANGED <<lifecycle, last>>
    /\ UNCHANGED <<allowed_tools, include_resources, provider_version, cached_tools,
                   cached_resources, fetch_version, completed_since, builder_vars,
                   tool_vars, loop_vars, files, tree_vars>>

\* the second __aexit__ is over: teardown() returns
TeardownSecondClosed ==
    /\ pc = "teardown_second"
    /\ mcp_session' = IF TeardownOrder[2] = "session" THEN "closed" ELSE mcp_session
    /\ mcp_client' = IF TeardownOrder[2] = "client" THEN "closed" ELSE mcp_client
    /\ pc' = "idle"
    /\ lifecycle' = "down"
    /\ last' = SessionHit("teardown", <<>>)
    /\ UNCHANGED <<allowed_tools, include_resources, provider_version, notification,
                   cached_tools, cached_resources, fetch_version, completed_since,
                   builder_vars, tool_vars, loop_vars, files, tree_vars>>

\* get_tools() -> InstanceCache async_wrapper of _get_allowed_mcp_tools, up to
\* its first suspension: a cache hit returns, a miss reads the mcp_session
\* property and sends list_tools
GetToolsBegin ==
    /\ pc = "idle"
    /\ IF cached_tools.present
       THEN /\ last' = SessionHit("get_tools", cached_tools.value)
            /\ completed_since' = TRUE
            /\ UNCHANGED <<pc, fetch_version>>
       ELSE IF SessionIsNone
       THEN /\ last' = SessionRaise("get_tools", "UninitialisedMCPSessionError", 0)
            /\ UNCHANGED <<pc, fetch_version, completed_since>>
       ELSE IF mcp_session = "initialized"
       THEN /\ pc' = "listing"
            /\ fetch_version' = provider_version
            /\ last' = [op |-> "get_tools", arg |-> "", outcome |-> "pending",
                        value |-> <<>>, requests |-> 1]
            /\ UNCHANGED completed_since
       ELSE /\ last' = UnusableSession("get_tools")
            /\ UNCHANGED <<pc, fetch_version, completed_since>>
    /\ UNCHANGED <<mcp_client, mcp_session, lifecycle, allowed_tools, include_resources,
                   provider_version, notification, cached_tools, cached_resources,
                   builder_vars, tool_vars,
                   loop_vars, files, tree_vars>>

\* the list_tools answer arrives: setattr(instance, cache_attr, ...) and return
GetToolsFinish ==
    /\ pc = "listing"
    /\ pc' = "idle"
    /\ cached_tools' = Cached(FilterAllowed(ProviderTools(fetch_version)))
    /\ completed_since' = TRUE
    /\ last' = [op |-> "get_tools", arg |-> "", outcome |-> "return",
                value |-> FilterAllowed(ProviderTools(fetch_version)), requests |-> 1]
    /\ UNCHANGED <<mcp_client, mcp_session, lifecycle, allowed_tools, include_resources,
                   provider_version, notification, cached_resources, fetch_version,
                   builder_vars, tool_vars,
                   loop_vars, files, tree_vars>>

\* the provider changes its tool list and notifies the client
ProviderChangesTools ==
    /\ mcp_session = "initialized"
    /\ notification = "none"
    /\ provider_version < MaxVersion
    /\ provider_version' = provider_version + 1
    /\ notification' = "tool_list_changed"
    /\ UNCHANGED <<pc, mcp_client, mcp_session, lifecycle, allowed_tools,
                   include_resources, cached_tools, cached_resources, fetch_version,
                   completed_since, builder_vars, tool_vars, last,
                   loop_vars, files, tree_vars>>

\* the notification types besides tool-list-changed: one with a callback that
\* clears a cache, one with a callback that does not, one without a case
OtherNotifications == {"resource_list_changed", "logging", "progress"}

\* the provider sends a notification of another type
ProviderNotifies(kind) ==
    /\ mcp_session = "initialized"
    /\ notification = "none"
    /\ notification' = kind
    /\ UNCHANGED <<pc, mcp_client, mcp_session, lifecycle, allowed_tools,
                   include_resources, provider_version, cached_tools, cached_resources,
                   fetch_version, completed_since, builder_vars, tool_vars, last,
                   loop_vars, files, tree_vars>>

ClearsEveryCache(kind) == {"_cached__get_allowed_mcp_tools", "_cached_list_all_resources"}

\* the match statement of _received_notification and the callback it awaits:
\* the cache attributes that callback's clear_cache() deletes
ClearedBy(kind) ==
    CASE kind = "tool_list_changed" -> {"_cached__get_allowed_mcp_tools"}
      [] kind = "resource_list_changed" -> {"_cached_list_all_resources"}
      [] OTHER -> {}

\* CustomClientSession._received_notification -> the capability's callbacks,
\* each a clear_cache() of one InstanceCache; last.value names the attributes
\* that were set and have been deleted
ReceivedNotification ==
    /\ notification # "none"
    /\ notification' = "none"
    /\ cached_tools' = IF "_cached__get_allowed_mcp_tools" \in ClearedBy(notification)
                       THEN Absent ELSE cached_tools
    /\ cached_resources' = IF "_cached_list_all_resources" \in ClearedBy(notification)
                           THEN Absent ELSE cached_resources
    /\ completed_since' = IF notification = "tool_list_changed" THEN FALSE
                          ELSE completed_since
    /\ last' = [op |-> "notification", arg |-> notification, outcome |-> "return",
                value |-> {a \in ClearedBy(notification) :
                             \/ a = "_cached__get_allowed_mcp_tools" /\ cached_tools.present
                             \/ a = "_cached_list_all_resources"
                                    /\ cached_resources.present},
                requests |-> 0]
    /\ UNCHANGED <<pc, mcp_client, mcp_session, lifecycle, allowed_tools,
                   include_resources, provider_version, fetch_version, builder_vars,
                   tool_vars, loop_vars, files, tree_vars>>

RECURSIVE ReadResources(_, _)
\* the loop of _get_included_resources over the listed resources from index k
\* on: read_resource(uri) for each resource _should_include_resource accepts
ReadResources(listed, k) ==
    IF k > Len(listed) THEN <<>>
    ELSE IF ShouldIncludeResource(listed[k])
    THEN <<listed[k]>> \o ReadResources(listed, k + 1)
    ELSE ReadResources(listed, k + 1)

IncludedResources == ReadResources(ProviderResources, 1)

\* what get_context_data() returned or raised: `value` are the resources in the
\* returned text (none: the empty string), `reads` the URIs read_resource was
\* called with, `requests` the requests sent to the provider
ContextResult(res, reads) ==
    [op |-> "get_context_data", arg |-> "", outcome |-> res.outcome,
     value |-> res.value, requests |-> res.requests, reads |-> reads]

\* get_context_data() -> _get_included_resources(): nothing is touched when
\* resources are switched off; otherwise list_all_resources (cached) and one
\* read_resource per included resource
GetContextData ==
    /\ pc = "idle"
    /\ IF include_resources = "False"
       THEN /\ last' = ContextResult(SessionHit("get_context_data", <<>>), <<>>)
            /\ UNCHANGED cached_resources
       ELSE IF ~cached_resources.present /\ SessionIsNone
       THEN /\ last' = ContextResult(SessionRaise("get_context_data",
                                                  "UninitialisedMCPSessionError", 0), <<>>)
            /\ UNCHANGED cached_resources
       ELSE IF mcp_session # "initialized"
       THEN /\ last' = IF ~cached_resources.present \/ IncludedResources # <<>>
                       THEN (IF SessionIsNone
                             THEN ContextResult(SessionRaise("get_context_data",
                                                   "UninitialisedMCPSessionError", 0), <<>>)
                             ELSE ContextResult(UnusableSession("get_context_data"), <<>>))
                       ELSE ContextResult(SessionHit("get_context_data", <<>>), <<>>)
            /\ UNCHANGED cached_resources
       ELSE /\ cached_resources' = Cached(ProviderResources)
            /\ last' = ContextResult(
                           [outcome |-> "return", value |-> IncludedResources,
                            requests |-> (IF cached_resources.present THEN 0 ELSE 1)
                                         + Len(IncludedResources)],
                           IncludedResources)
    /\ UNCHANGED <<pc, mcp_client, mcp_session, lifecycle, allowed_tools,
                   include_resources, provider_version, notification, cached_tools,
                   fetch_version, completed_since, builder_vars, tool_vars,
                   loop_vars, files, tree_vars>>

(***************************************************************************)
(* The adapted function of a remote tool (mcptool_to_tool.call_mcp_tool)   *)
(***************************************************************************)
MaxSegments == 2

ErrorMarker == <<"Error calling tool: ">>

\* the text of one content segment, as tokens
SegmentTexts == {<<"42">>, <<"boom">>, <<"Error calling tool: ", "quota">>}

ResultContents == UNION {[1..n -> SegmentTexts] : n \in 0..MaxSegments}

RECURSIVE JoinLines(_, _)
\* "\n".join(content.text for content in tool_result.content), from segment k on
JoinLines(content, k) ==
    IF k > Len(content) THEN <<>>
    ELSE IF k = Len(content) THEN content[k]
    ELSE content[k] \o <<"\n">> \o JoinLines(content, k + 1)

MarkAlways(is_error) == TRUE

\* `if tool_result.isError:` - whether the marker is put in front
MarkAsError(is_error) == is_error

\* the string call_mcp_tool returns for a provider result
ToolResultText(content, is_error) ==
    IF MarkAsError(is_error) THEN ErrorMarker \o JoinLines(content, 1)
    ELSE JoinLines(content, 1)

\* call_mcp_tool(**kwargs): reads the mcp_session property, forwards once
CallMcpTool(content, is_error) ==
    /\ pc = "idle"
    /\ last' = IF SessionIsNone
               THEN SessionRaise("call_mcp_tool", "UninitialisedMCPSessionError", 0)
               ELSE IF mcp_session # "initialized"
               THEN UnusableSession("call_mcp_tool")
               ELSE [op |-> "call_mcp_tool", arg |-> [content |-> content,
                                                      isError |-> is_error],
                     outcome |-> "return", value |-> ToolResultText(content, is_error),
                     requests |-> 1]
    /\ UNCHANGED <<session_vars, builder_vars, tool_vars, loop_vars, files, tree_vars>>

InitSession ==
    /\ files = InitialFiles
    /\ TreeIdle
    /\ BuilderIdle
    /\ ToolIdle
    /\ LoopIdle
    /\ pc = "idle"
    /\ mcp_client = "None"
    /\ mcp_session = "None"
    /\ lifecycle = "new"
    /\ allowed_tools \in {NoAllowList, AllowList(ExampleAllowList)}
    /\ include_resources \in {"False", "True", "predicate"}
    /\ provider_version = 0
    /\ notification = "none"
    /\ cached_tools = Absent
    /\ cached_resources = Absent
    /\ fetch_version = 0
    /\ completed_since = FALSE
    /\ last = NoOp

NextSession ==
    \/ SetupBegin
    \/ SetupTransportOpen
    \/ SetupTransportFails
    \/ SetupInitialized
    \/ SetupInitializeFails
    \/ TeardownBegin
    \/ \E r \in BOOLEAN : TeardownFirstClosed(r)
    \/ TeardownSecondClosed
    \/ GetToolsBegin
    \/ GetToolsFinish
    \/ ProviderChangesTools
    \/ \E kind \in OtherNotifications : ProviderNotifies(kind)
    \/ ReceivedNotification
    \/ GetContextData
    \/ \E content \in ResultContents, is_error \in BOOLEAN : CallMcpTool(content, is_error)

SpecSession == InitSession /\ [][NextSession]_vars

(***************************************************************************)
(* A tool called through Tool.call and through the framework wrappers      *)
(***************************************************************************)
\* str(e) of the exception a tool function raises, or the text it returns
Messages == {<<"Test error message">>, <<>>, <<"Error: ", "nested">>}

InitialPrompt == <<"Initial system prompt">>

\* what system_prompt_builder() returns
BuiltPrompt == <<"System prompt content">>

\* awaiting a coroutine function, or run_sync / run_in_executor of a plain
\* function: the function's return value or the exception it raised
FunctionResult(t) ==
    [outcome |-> IF t.raises = "none" THEN "return" ELSE t.raises, value |-> t.text]

\* Tool.call(**kwargs): both branches sit inside the try block
ToolCall(t) == CallWrapper(FunctionResult(t))

RefreshAlways(t) == TRUE

\* `if tool.updates_system_prompt:` / `if refresh_system_prompt:` - whether the
\* wrapper rebuilds the system prompt once the call came back
RefreshesPrompt(t) == t.updates_system_prompt

\* Tool.call invoked directly (as the LangChain coroutine)
CallTool ==
    /\ last' = [op |-> "Tool.call", arg |-> "", outcome |-> ToolCall(tool).outcome,
                value |-> ToolCall(tool).value, requests |-> 0]
    /\ UNCHANGED <<tool_vars, builder_vars, session_vars, loop_vars, files, tree_vars>>

\* wrap_tool_for_pydantic._wrapper: the prompt refresh is inside the try block,
\* after the function returned
CallFrameworkWrapper ==
    LET res == FunctionResult(tool)
        refresh == res.outcome = "return" /\ RefreshesPrompt(tool)
    IN /\ prompt_content' = IF refresh THEN BuiltPrompt ELSE prompt_content
       /\ last' = [op |-> "wrap_tool_for_pydantic", arg |-> "",
                   outcome |-> CallWrapper(res).outcome, value |-> CallWrapper(res).value,
                   requests |-> IF refresh THEN 1 ELSE 0]
       /\ UNCHANGED <<tool, builder_vars, session_vars, loop_vars, files, tree_vars>>

\* wrap_tool_func_for_pydantic._wrapper: tool.call, then the prompt refresh
\* whenever the call came back
CallPydanticWrapper ==
    LET out == ToolCall(tool)
        refresh == out.outcome = "return" /\ RefreshesPrompt(tool)
    IN /\ prompt_content' = IF refresh THEN BuiltPrompt ELSE prompt_content
       /\ last' = [op |-> "wrap_tool_func_for_pydantic", arg |-> "",
                   outcome |-> out.outcome, value |-> out.value,
                   requests |-> IF refresh THEN 1 ELSE 0]
       /\ UNCHANGED <<tool, builder_vars, session_vars, loop_vars, files, tree_vars>>

\* the caller puts other text into the first message's system prompt part
SetPromptContent(text) ==
    /\ prompt_content # text
    /\ prompt_content' = text
    /\ last' = [op |-> "set_prompt", arg |-> "", outcome |-> "return", value |-> <<>>,
                requests |-> 0]
    /\ UNCHANGED <<tool, builder_vars, session_vars, loop_vars, files, tree_vars>>

InitTool ==
    /\ files = InitialFiles
    /\ TreeIdle
    /\ BuilderIdle
    /\ SessionIdle
    /\ LoopIdle
    /\ tool \in [coroutine : BOOLEAN, raises : {"none", "ToolError", "ValueError"},
                 text : Messages, updates_system_prompt : BOOLEAN]
    /\ prompt_content = InitialPrompt
    /\ last = NoOp

NextTool ==
    \/ CallTool
    \/ CallFrameworkWrapper
    \/ CallPydanticWrapper
    \/ \E text \in {InitialPrompt, <<"Different content">>} : SetPromptContent(text)

SpecTool == InitTool /\ [][NextTool]_vars

(***************************************************************************)
(* The conversation loops: examples/pydantic_ai/run.py, examples/langchain *)
(* /run.py and dev_ai/run.py.  A line of input is a sequence of tokens:    *)
(* blanks, "/" and words.                                                  *)
(***************************************************************************)
MaxTurns == 2

\* what the user may type (and, for dev_ai/run.py, pass on the command line)
UserInputs ==
    { <<>>, <<" ">>, <<"hello">>, <<"a", "/", "b">>,
      <<"/", "quit">>, <<"/", "exit">>, <<"/", "q">>,
      <<"/", "QUIT">>, <<"/", "Exit">>, <<" ", "/", "Q", " ">>,
      <<"/", "help">>, <<"/">>, <<"/", "quit", " ", "now">> }

RECURSIVE LStrip(_)
LStrip(t) == IF t # <<>> /\ Head(t) = " " THEN LStrip(Tail(t)) ELSE t

RECURSIVE RStrip(_)
RStrip(t) ==
    IF t # <<>> /\ t[Len(t)] = " " THEN RStrip(SubSeq(t, 1, Len(t) - 1)) ELSE t

\* str.strip()
Strip(t) == RStrip(LStrip(t))

\* str.lower(), token by token
LowerText(t) == [k \in 1..Len(t) |-> Lower(t[k])]

\* prompt.startswith("/")
StartsWithSlash(t) == t # <<>> /\ t[1] = "/"

\* EXIT_COMMANDS = ["/quit", "/exit", "/q"] and `prompt.lower() in EXIT_COMMANDS`
IsExitCommand(t) == LowerText(t) \in {<<"/", "quit">>, <<"/", "exit">>, <<"/", "q">>}

\* the two example loops read the prompt at the top of the loop body; in
\* dev_ai/run.py Prompt.ask is the last statement of the body
AsksAtTop == run_variant # "dev_ai/run"

\* where `continue` leads: back to `while True:`, whose body starts with
\* Prompt.ask in the example loops only
AfterContinue == IF AsksAtTop THEN "ask" ELSE "top"

\* run_pydantic_ai / run_langchain: `async with get_agent_builder() as builder`,
\* then the loop; run(model, prompt): the loop starts with the given prompt
LoopStart(given) ==
    /\ loop_pc = "start"
    /\ IF AsksAtTop
       THEN /\ builder_scope' = "entered"
            /\ loop_pc' = "ask"
            /\ prompt' = prompt
       ELSE /\ builder_scope' = builder_scope
            /\ loop_pc' = "top"
            /\ prompt' = given
    /\ last' = [op |-> "loop_start", arg |-> "", outcome |-> "return", value |-> <<>>]
    /\ UNCHANGED <<run_variant, message_history, builder_vars, session_vars, tool_vars, files, tree_vars>>

\* prompt = Prompt.ask("You").strip()
Ask(typed) ==
    /\ loop_pc = "ask"
    /\ prompt' = Strip(typed)
    /\ loop_pc' = "top"
    /\ last' = [op |-> "ask", arg |-> "", outcome |-> "return", value |-> typed]
    /\ UNCHANGED <<run_variant, message_history, builder_scope, builder_vars,
                   session_vars, tool_vars, files, tree_vars>>

\* if not prompt: continue
SkipEmpty ==
    /\ loop_pc = "top"
    /\ prompt = <<>>
    /\ loop_pc' = AfterContinue
    /\ last' = [op |-> "skip_empty", arg |-> "", outcome |-> "return", value |-> prompt]
    /\ UNCHANGED <<run_variant, prompt, message_history, builder_scope, builder_vars,
                   session_vars, tool_vars, files, tree_vars>>

\* if prompt.lower() in EXIT_COMMANDS: break - the loop ends and, in the
\* example loops, the `async with` block is left
QuitCommand ==
    /\ loop_pc = "top"
    /\ prompt # <<>>
    /\ StartsWithSlash(prompt)
    /\ IsExitCommand(prompt)
    /\ loop_pc' = "done"
    /\ builder_scope' = IF builder_scope = "entered" THEN "exited" ELSE builder_scope
    /\ last' = [op |-> "quit", arg |-> "", outcome |-> "return", value |-> prompt]
    /\ UNCHANGED <<run_variant, prompt, message_history, builder_vars, session_vars,
                   tool_vars, files, tree_vars>>

\* console.print(f"Unknown command: {prompt}"); continue
UnknownCommand ==
    /\ loop_pc = "top"
    /\ prompt # <<>>
    /\ StartsWithSlash(prompt)
    /\ ~IsExitCommand(prompt)
    /\ loop_pc' = AfterContinue
    /\ last' = [op |-> "unknown_command", arg |-> "", outcome |-> "return",
                value |-> <<"Unknown command: ">> \o prompt]
    /\ UNCHANGED <<run_variant, prompt, message_history, builder_scope, builder_vars,
                   session_vars, tool_vars, files, tree_vars>>

\* response = await agent.run(prompt, message_history=message_history);
\* message_history = response.all_messages(); dev_ai/run.py then asks for the
\* next prompt
AgentRun(typed) ==
    /\ loop_pc = "top"
    /\ prompt # <<>>
    /\ ~StartsWithSlash(prompt)
    /\ Len(message_history) < MaxTurns
    /\ message_history' = Append(message_history, prompt)
    /\ IF AsksAtTop
       THEN loop_pc' = "ask" /\ prompt' = prompt
       ELSE loop_pc' = "top" /\ prompt' = Strip(typed)
    /\ last' = [op |-> "agent_run", arg |-> "", outcome |-> "return", value |-> prompt]
    /\ UNCHANGED <<run_variant, builder_scope, builder_vars, session_vars, tool_vars, files, tree_vars>>

InitLoop ==
    /\ files = InitialFiles
    /\ TreeIdle
    /\ BuilderIdle
    /\ SessionIdle
    /\ ToolIdle
    /\ run_variant \in {"examples/pydantic_ai", "examples/langchain", "dev_ai/run"}
    /\ loop_pc = "start"
    /\ prompt = <<>>
    /\ message_history = <<>>
    /\ builder_scope = "none"
    /\ last = NoOp

NextLoop ==
    \/ \E given \in UserInputs : LoopStart(given)
    \/ \E typed \in UserInputs : Ask(typed)
    \/ SkipEmpty
    \/ QuitCommand
    \/ UnknownCommand
    \/ \E typed \in UserInputs : AgentRun(typed)

SpecLoop == InitLoop /\ [][NextLoop]_vars

(***************************************************************************)
(* FileSystemCapability: create_file, read_file and expand_directory.  A   *)
(* location is the sequence of names from the top directory; a path        *)
(* argument is a sequence of segments, absolute when it starts with "/".   *)
(***************************************************************************)
\* self.root_directory
RootDirectory == <<"work">>

\* the directories on disk
Directories == {<<>>, <<"work">>, <<"work", "src">>, <<"etc">>}

\* the `path` arguments the agent may pass
PathArgs ==
    { <<"notes.txt">>, <<"new.txt">>, <<"src", "main.py">>, <<"src">>, <<"missing">>,
      <<"src", "..", "notes.txt">>, <<"..", "secret.txt">>, <<"..", "leak.txt">>,
      <<"src", "..", "..", "etc", "passwd">>, <<"..", "etc">>,
      <<"/", "etc", "passwd">>, <<"/", "work", "notes.txt">> }

\* Path(path).is_absolute()
IsAbsolute(path) == path # <<>> /\ path[1] = "/"

RECURSIVE Resolve(_, _)
\* the location the operating system reaches for self.root_directory / path:
\* the segments are followed from loc, ".." leading to the parent directory
Resolve(loc, path) ==
    IF path = <<>> THEN loc
    ELSE IF Head(path) = ".."
    THEN Resolve(IF loc = <<>> THEN <<>> ELSE SubSeq(loc, 1, Len(loc) - 1), Tail(path))
    ELSE Resolve(Append(loc, Head(path)), Tail(path))

\* the location lies in the root directory or below it
InsideRoot(loc) ==
    Len(loc) >= Len(RootDirectory) /\ SubSeq(loc, 1, Len(RootDirectory)) = RootDirectory

\* a tool result: ToolError raised by the tool body comes back through
\* Tool.call as an 'Error: ...' string; `touched` are the locations the call
\* read, created or listed
FsResult(op, path, error, text, touched) ==
    [op |-> op, arg |-> path, outcome |-> "return", error |-> error,
     value |-> IF error THEN <<"Error: ">> \o text ELSE text, touched |-> touched]

\* _get_abs_path(path) raised: 'Path must be relative, not absolute'
AbsoluteRejected(op, path) ==
    FsResult(op, path, TRUE, <<"Path must be relative, not absolute: ">>, {})

\* create_file(path, content)
CreateFile(path) ==
    LET loc == Resolve(RootDirectory, path)
        parent == SubSeq(loc, 1, Len(loc) - 1)
    IN /\ IF IsAbsolute(path)
          THEN last' = AbsoluteRejected("create_file", path) /\ files' = files
          ELSE IF loc \in files \cup Directories
          THEN /\ last' = FsResult("create_file", path, TRUE,
                                   <<"File already exists at ">>, {})
               /\ files' = files
          ELSE IF parent \notin Directories
          THEN /\ last' = FsResult("create_file", path, TRUE,
                                   <<"Error creating file: ">>, {})
               /\ files' = files
          ELSE /\ last' = FsResult("create_file", path, FALSE, <<"File created at ">>, {loc})
               /\ files' = files \cup {loc}
       /\ UNCHANGED <<builder_vars, session_vars, tool_vars, loop_vars, tree_vars>>

\* read_file(path)
ReadFile(path) ==
    LET loc == Resolve(RootDirectory, path)
    IN /\ last' = IF IsAbsolute(path) THEN AbsoluteRejected("read_file", path)
                  ELSE IF loc \in files
                  THEN FsResult("read_file", path, FALSE, <<"content of ">> \o loc, {loc})
                  ELSE FsResult("read_file", path, TRUE, <<"Error reading file: ">>, {})
       /\ UNCHANGED <<files, tree_vars, builder_vars, session_vars, tool_vars, loop_vars>>

\* expand_directory(path): DirectoryTree.expand_directory finds the target only
\* among the items of the tree, whose paths carry no ".." segment
ExpandDirectory(path) ==
    LET loc == Resolve(RootDirectory, path)
    IN /\ last' = IF IsAbsolute(path) THEN AbsoluteRejected("expand_directory", path)
                  ELSE IF loc \notin files \cup Directories
                  THEN FsResult("expand_directory", path, TRUE,
                                <<"Directory does not exist: ">>, {})
                  ELSE IF loc \notin Directories
                  THEN FsResult("expand_directory", path, TRUE,
                                <<"Path is not a directory: ">>, {})
                  ELSE IF \E k \in 1..Len(path) : path[k] = ".."
                  THEN FsResult("expand_directory", path, FALSE,
                                <<"Directory not found or could not be expanded: ">>, {})
                  ELSE FsResult("expand_directory", path, FALSE,
                                <<"Expanded directory: ">>, {loc})
       /\ UNCHANGED <<files, tree_vars, builder_vars, session_vars, tool_vars, loop_vars>>

InitFiles ==
    /\ BuilderIdle
    /\ SessionIdle
    /\ ToolIdle
    /\ LoopIdle
    /\ files = InitialFiles
    /\ TreeIdle
    /\ last = NoOp

NextFiles ==
    \/ \E path \in PathArgs : CreateFile(path)
    \/ \E path \in PathArgs : ReadFile(path)
    \/ \E path \in PathArgs : ExpandDirectory(path)

SpecFiles == InitFiles /\ [][NextFiles]_vars

(***************************************************************************)
(* DirectoryTree: expand_directory, format_as_tree and format_as_paths.    *)
(* The tree is given by the directories whose item is expanded; the items  *)
(* of the tree are the root and the entries of the expanded directories.   *)
(***************************************************************************)
\* target.relative_to(item.path) does not raise
IsRelativeTo(target, item) ==
    Len(item) <= Len(target) /\ SubSeq(target, 1, Len(item)) = item

RECURSIVE FindItem(_, _)
\* _expand_directory(item, target): whether the search from `item` reaches an
\* item whose path is the target
FindItem(item, target) ==
    IF ~IsRelativeTo(target, item) THEN FALSE
    ELSE IF item = target THEN TRUE
    ELSE /\ item \in root_item
         /\ \E k \in 1..Len(DirEntries(item)) :
               FindItem(Append(item, DirEntries(item)[k]), target)

\* the target paths handed to expand_directory
TargetPaths ==
    TreeDirectories \cup
    { <<"work", "notes.txt">>, <<"work", "missing">>, <<"etc">>,
      <<"work", "src", "..", "docs">> }

\* the suffix of a directory's line
DirectoryMark(path) ==
    IF ~IsDirectory(path) THEN ""
    ELSE IF path \in root_item THEN "/" ELSE "/ [not expanded]"

RECURSIVE CollectPaths(_), CollectChildPaths(_, _)
\* _collect_paths(item): the item's own line unless it is the root, then the
\* lines of its children
CollectPaths(item) ==
    (IF item # TreeRoot
     THEN << [path |-> SubSeq(item, Len(TreeRoot) + 1, Len(item)),
              mark |-> DirectoryMark(item)] >>
     ELSE <<>>)
    \o (IF item \in root_item THEN CollectChildPaths(item, 1) ELSE <<>>)

CollectChildPaths(dir, k) ==
    IF k > Len(DirEntries(dir)) THEN <<>>
    ELSE CollectPaths(Append(dir, DirEntries(dir)[k])) \o CollectChildPaths(dir, k + 1)

RECURSIVE FormatTree(_, _, _), FormatChildren(_, _, _)
\* _format_tree(item, prefix, is_root): "|- " and "+- " stand for the branch
\* marks, "|  " and "   " for the continuation of the prefix
FormatTree(item, prefix, is_root) ==
    (IF is_root
     THEN << [prefix |-> prefix, name |-> item[Len(item)], mark |-> "/"] >>
     ELSE <<>>)
    \o (IF item \in root_item
        THEN FormatChildren(item, IF is_root THEN <<>> ELSE prefix, 1)
        ELSE <<>>)

FormatChildren(dir, prefix, k) ==
    IF k > Len(DirEntries(dir)) THEN <<>>
    ELSE LET child == Append(dir, DirEntries(dir)[k])
             is_last == k = Len(DirEntries(dir))
         IN << [prefix |-> Append(prefix, IF is_last THEN "+- " ELSE "|- "),
                name |-> DirEntries(dir)[k], mark |-> DirectoryMark(child)] >>
            \o (IF child \in root_item /\ DirEntries(child) # <<>>
                THEN FormatTree(child, Append(prefix, IF is_last THEN "   " ELSE "|  "),
                                FALSE)
                ELSE <<>>)
            \o FormatChildren(dir, prefix, k + 1)

\* `if not self._tree_cache:` - None and the empty text both count as unset
IsUnset(cache) == ~cache.present \/ cache.value = <<>>

\* format_as_tree()
FormatAsTree ==
    /\ tree_cache' = IF IsUnset(tree_cache) THEN TextOf(FormatTree(TreeRoot, <<>>, TRUE))
                     ELSE tree_cache
    /\ last' = [op |-> "format_as_tree", arg |-> <<>>, outcome |-> "return",
                value |-> tree_cache'.value]
    /\ UNCHANGED <<root_item, paths_cache, files, builder_vars, session_vars, tool_vars,
                   loop_vars>>

\* format_as_paths()
FormatAsPaths ==
    /\ paths_cache' = IF IsUnset(paths_cache) THEN TextOf(CollectPaths(TreeRoot))
                      ELSE paths_cache
    /\ last' = [op |-> "format_as_paths", arg |-> <<>>, outcome |-> "return",
                value |-> paths_cache'.value]
    /\ UNCHANGED <<root_item, tree_cache, files, builder_vars, session_vars, tool_vars,
                   loop_vars>>

ClearsTreeCacheOnly == {"_tree_cache"}

\* _clear_display_caches(): the attributes it sets to None
ClearedCaches == {"_tree_cache", "_paths_cache"}

\* DirectoryTree.expand_directory(target_path): the item found is rebuilt from
\* disk at its depth (iterdir() of a file raises and the call ends there);
\* then, found or not, the render caches are cleared.  last.cleared names the
\* caches that held a text and were cleared.
TreeExpandDirectory(target) ==
    LET found == FindItem(TreeRoot, target)
    IN IF found /\ ~IsDirectory(target)
       THEN /\ last' = [op |-> "DirectoryTree.expand_directory", arg |-> target,
                        outcome |-> "NotADirectoryError", value |-> FALSE,
                        cleared |-> {}]
            /\ UNCHANGED <<tree_vars, files, builder_vars, session_vars, tool_vars,
                           loop_vars>>
       ELSE /\ root_item' =
                  IF found
                  THEN {d \in root_item : ~IsRelativeTo(d, target)}
                       \cup BuildDirectoryTree(target, Len(target) - Len(TreeRoot))
                  ELSE root_item
            /\ tree_cache' = IF "_tree_cache" \in ClearedCaches THEN NoneText
                             ELSE tree_cache
            /\ paths_cache' = IF "_paths_cache" \in ClearedCaches THEN NoneText
                              ELSE paths_cache
            /\ last' = [op |-> "DirectoryTree.expand_directory", arg |-> target,
                        outcome |-> "return", value |-> found,
                        cleared |-> {c \in ClearedCaches :
                                       \/ c = "_tree_cache" /\ tree_cache.present
                                       \/ c = "_paths_cache" /\ paths_cache.present}]
            /\ UNCHANGED <<files, builder_vars, session_vars, tool_vars, loop_vars>>

InitTree ==
    /\ BuilderIdle
    /\ SessionIdle
    /\ ToolIdle
    /\ LoopIdle
    /\ files = InitialFiles
    /\ root_item = BuildDirectoryTree(TreeRoot, 0)
    /\ tree_cache = NoneText
    /\ paths_cache = NoneText
    /\ last = NoOp

NextTree ==
    \/ \E target \in TargetPaths : TreeExpandDirectory(target)
    \/ FormatAsTree
    \/ FormatAsPaths

SpecTree == InitTree /\ [][NextTree]_vars

(***************************************************************************)
(* The call signature of a framework tool: json_schema_to_signature and    *)
(* wrap_tool_func_for_pydantic.  Here `tool` holds the first parameter of  *)
(* the tool function and the tool's input schema: the property names in    *)
(* the order of the `properties` dict, and the `required` list.  A         *)
(* signature is the sequence of its parameters.                            *)
(***************************************************************************)
MaxParams == 3

ParamNames == {"ctx", "param1", "param2", "name"}

\* how the tool function's parameter list starts
FirstParams == {"none", "ctx: RunContext", "ctx", "ctx: int", "param1: str"}

\* dict keys: each name at most once
PropertyLists ==
    {ps \in UNION {[1..n -> ParamNames] : n \in 0..MaxParams} :
        \A j, k \in 1..Len(ps) : j # k => ps[j] # ps[k]}

SignatureTools ==
    {[first_param |-> f, properties |-> ps, required |-> req] :
        f \in FirstParams, ps \in PropertyLists, req \in SUBSET ParamNames}

\* `if name in required: default = inspect.Parameter.empty ... else: default = None`
HasDefault(name, required) == name \notin required

\* inspect.Parameter(name=name, default=default, ...)
Parameter(name, required) == [name |-> name, has_default |-> HasDefault(name, required)]

RECURSIVE SchemaParameters(_, _, _, _)
\* the loop over properties.items() from index k on: the parameters appended
\* to required_parameters (want_default FALSE) or to optional_parameters
SchemaParameters(ps, required, want_default, k) ==
    IF k > Len(ps) THEN <<>>
    ELSE IF HasDefault(ps[k], required) = want_default
    THEN <<Parameter(ps[k], required)>> \o SchemaParameters(ps, required, want_default, k + 1)
    ELSE SchemaParameters(ps, required, want_default, k + 1)

\* json_schema_to_signature(schema): inspect.Signature(required_parameters +
\* optional_parameters)
json_schema_to_signature(t) ==
    SchemaParameters(t.properties, t.required, FALSE, 1)
        \o SchemaParameters(t.properties, t.required, TRUE, 1)

\* tool_func_has_ctx_arg(function): a first parameter named ctx must be
\* annotated with RunContext
tool_func_has_ctx_arg(t) ==
    CASE t.first_param = "ctx: RunContext" -> [outcome |-> "return", value |-> TRUE]
      [] t.first_param \in {"ctx", "ctx: int"} -> [outcome |-> "ToolError", value |-> FALSE]
      [] OTHER -> [outcome |-> "return", value |-> FALSE]

\* inspect.Signature refuses two parameters of one name
HasDuplicateNames(sig) == \E j, k \in 1..Len(sig) : j # k /\ sig[j].name = sig[k].name

\* wrap_tool_func_for_pydantic(tool, ...): the __signature__ given to _wrapper
wrapper_sig(t) ==
    LET has_ctx_param == tool_func_has_ctx_arg(t)
        tool_func_sig == json_schema_to_signature(t)
        with_ctx == <<[name |-> "ctx", has_default |-> FALSE]>> \o tool_func_sig
    IN IF has_ctx_param.outcome # "return"
       THEN [outcome |-> has_ctx_param.outcome, value |-> <<>>]
       ELSE IF has_ctx_param.value
       THEN [outcome |-> "return", value |-> tool_func_sig]
       ELSE IF HasDuplicateNames(with_ctx)
       THEN [outcome |-> "ValueError", value |-> <<>>]
       ELSE [outcome |-> "return", value |-> with_ctx]

\* json_schema_to_signature(tool.input_schema) is called
JsonSchemaToSignature ==
    /\ last' = [op |-> "json_schema_to_signature", arg |-> "", outcome |-> "return",
                value |-> json_schema_to_signature(tool)]
    /\ UNCHANGED <<tool_vars, builder_vars, session_vars, loop_vars, files, tree_vars>>

\* wrap_tool_func_for_pydantic(tool, system_prompt_builder) is called and the
\* wrapper's signature inspected
WrapToolFunc ==
    /\ last' = [op |-> "wrap_tool_func_for_pydantic.signature", arg |-> "",
                outcome |-> wrapper_sig(tool).outcome, value |-> wrapper_sig(tool).value]
    /\ UNCHANGED <<tool_vars, builder_vars, session_vars, loop_vars, files, tree_vars>>

InitSignature ==
    /\ files = InitialFiles
    /\ TreeIdle
    /\ BuilderIdle
    /\ SessionIdle
    /\ LoopIdle
    /\ tool \in {t \in SignatureTools : t.required \subseteq Range(t.properties)}
    /\ prompt_content = <<>>
    /\ last = NoOp

NextSignature ==
    \/ JsonSchemaToSignature
    \/ WrapToolFunc

SpecSignature == InitSignature /\ [][NextSignature]_vars

(***************************************************************************)
(* Claims about the AgentBuilder (checked under SpecBuilder)               *)
(***************************************************************************)
InRegistrationOrder(s) == \A j, k \in 1..Len(s) : j < k => s[j] < s[k]

\* C1: after any sequence of enable(), disable() and enable_capability()
\* calls, enabled_capabilities holds exactly the capabilities whose flag is
\* true and disabled_capabilities exactly those whose flag is false, each in
\* registration order; the lists are disjoint and together hold every
\* registered capability exactly once.
C1_LivePartition ==
    /\ \A c \in Caps : (c \in Range(enabled_capabilities)) <=> enabled[c]
    /\ \A c \in Caps : (c \in Range(disabled_capabilities)) <=> ~enabled[c]
    /\ InRegistrationOrder(enabled_capabilities)
    /\ InRegistrationOrder(disabled_capabilities)
    /\ Range(enabled_capabilities) \cap Range(disabled_capabilities) = {}
    /\ Len(enabled_capabilities) + Len(disabled_capabilities) = NumCaps

\* a capability was switched on by the meta-tool, then another one was
\* disabled, and both lists are populated
C1_Witness ==
    /\ last.op = "disable"
    /\ tool_enabled # {}
    /\ enabled_capabilities # <<>>
    /\ disabled_capabilities # <<>>

\* the registered capabilities whose name equals `name` ignoring case
MatchingCaps(name) == {c \in Caps : Lower(capabilities[c].name) = Lower(name)}

FirstMatching(name) == CHOOSE c \in MatchingCaps(name) : \A d \in MatchingCaps(name) : c <= d

\* C2: enable_capability(name) with a name that matches ignoring case sets the
\* flag of the first matching capability, leaves every other flag unchanged,
\* and every system-prompt render after it is given that capability in the
\* enabled list and not in the disabled list (for as long as nothing disables
\* it again).
C2_EnableThenRender ==
    /\ [][\A name \in RequestNames :
            (EnableCapabilityTool(name) /\ MatchingCaps(name) # {}) =>
                /\ enabled'[FirstMatching(name)]
                /\ \A d \in Caps \ {FirstMatching(name)} : enabled'[d] = enabled[d]
                /\ last'.outcome = "return"]_vars
    /\ [](last.op = "get_system_prompt" =>
            \A c \in tool_enabled :
                /\ c \in Range(last.value.enabled_capabilities)
                /\ c \notin Range(last.value.disabled_capabilities))

\* a render right after the meta-tool enabled the last disabled capability:
\* the disabled list handed to the template is empty
C2_Witness ==
    /\ last.op = "get_system_prompt"
    /\ tool_enabled # {}
    /\ last.value.disabled_capabilities = <<>>

\* C3: the meta-tool called with a name that matches no capability changes no
\* flag and comes back as the string 'Error: Capability <name> not found';
\* no exception leaves the tool call.
C3_UnknownNameIsErrorString ==
    [][\A name \in RequestNames :
          (EnableCapabilityTool(name) /\ MatchingCaps(name) = {}) =>
              /\ enabled' = enabled
              /\ last'.outcome = "return"
              /\ last'.value = <<"Error: ", "Capability ", name, " not found">>]_vars

HasMetaTool(ts) == \E k \in 1..Len(ts) : ts[k].name = MetaToolName

\* C4: the meta-tool is offered exactly when some capability is disabled:
\* get_tools() holds it (first) exactly when disabled_capabilities is not
\* empty, and a built framework tool list admits it at dispatch exactly when
\* some capability is disabled.
C4_MetaToolIffDisabled ==
    /\ (last.op = "get_tools" /\ last.outcome = "return") =>
          /\ (MetaToolName \in Range(last.value)) <=> (disabled_capabilities # <<>>)
          /\ (disabled_capabilities # <<>>) => last.value[1] = MetaToolName
    /\ pydantic_tools.status = "built" =>
          (HasMetaTool(AdmittedTools) <=> disabled_capabilities # <<>>)

\* the framework tools registered for capability c
RegisteredFor(c) == SelectSeq(pydantic_tools.tools, LAMBDA t : t.capability = c)

CapabilityToolsOf(ts) == SelectSeq(ts, LAMBDA t : t.capability # 0)

\* C5: a built framework tool list holds one tool for every tool of every
\* capability, enabled or not, and at each dispatch a capability tool is
\* admitted exactly when its capability's flag is true at that moment, so the
\* admitted capability tools are those of the enabled capabilities without a
\* rebuild.
C5_PrepareFollowsFlag ==
    pydantic_tools.status = "built" =>
        /\ \A c \in Caps :
              /\ Len(RegisteredFor(c)) = Len(capabilities[c].tools)
              /\ \A k \in 1..Len(capabilities[c].tools) :
                    RegisteredFor(c)[k].name = capabilities[c].tools[k]
        /\ \A k \in 1..Len(pydantic_tools.tools) :
              LET t == pydantic_tools.tools[k] IN
              t.capability # 0 => (Prepare(t) <=> enabled[t.capability])
        /\ \A c \in Caps :
              SelectSeq(AdmittedTools, LAMBDA t : t.capability = c)
                  = (IF enabled[c] THEN RegisteredFor(c) ELSE <<>>)

\* a list built earlier, a flag flipped since, and the admitted capability
\* tools are a proper, non-empty part of the registered ones
C5_Witness ==
    /\ pydantic_tools.status = "built"
    /\ last.op \in {"enable", "disable", "enable_capability"}
    /\ CapabilityToolsOf(AdmittedTools) # <<>>
    /\ Len(CapabilityToolsOf(AdmittedTools)) < Len(CapabilityToolsOf(pydantic_tools.tools))

\* C6: inside the builder context the tools of a disabled capability can be
\* constructed: get_tools() on it returns without raising, so
\* get_pydantic_ai_tools() succeeds for every combination of flags.
C6_DisabledToolsConstructible ==
    /\ in_context => \A c \in Caps : ~enabled[c] => CapGetTools(c).outcome = "return"
    /\ last.op = "get_pydantic_ai_tools" => last.outcome = "return"

(***************************************************************************)
(* Claims about the remote capability (checked under SpecSession)          *)
(***************************************************************************)
\* C7: for a set-up remote capability a tool-list accessor call sends
\* list_tools exactly when no accessor call has completed since the last
\* tool-list-changed notification (or since setup); otherwise it returns the
\* cached list without a query, and a call that queries returns the list it
\* queried.
C7_QueryIffNoneCompleted ==
    /\ [][(GetToolsBegin /\ lifecycle = "up") =>
            /\ (last'.requests = 1) <=> ~completed_since
            /\ completed_since =>
                  (last'.outcome = "return" /\ last'.value = cached_tools.value)]_vars
    /\ [][(GetToolsBegin /\ pc' = "listing") => fetch_version' = provider_version]_vars
    /\ [][GetToolsFinish =>
            /\ last'.outcome = "return"
            /\ last'.value = FilterAllowed(ProviderTools(fetch_version))]_vars

RECURSIVE JoinedText(_)
\* the segments' texts with a newline between neighbours, built from the left
JoinedText(content) ==
    IF content = <<>> THEN <<>>
    ELSE IF Len(content) = 1 THEN content[1]
    ELSE JoinedText(SubSeq(content, 1, Len(content) - 1)) \o <<"\n">>
         \o content[Len(content)]

\* C8: the adapted function forwards the call once and returns the
\* newline-joined text of the content segments, with 'Error calling tool: '
\* put in front exactly when the provider flags an error; a flagged error
\* never raises ('42' unflagged gives '42', 'boom' flagged gives
\* 'Error calling tool: boom').
C8_AdaptedFunctionResult ==
    (last.op = "call_mcp_tool" /\ mcp_session = "initialized") =>
        /\ last.outcome = "return"
        /\ last.requests = 1
        /\ last.arg.isError =>
              last.value = <<"Error calling tool: ">> \o JoinedText(last.arg.content)
        /\ ~last.arg.isError => last.value = JoinedText(last.arg.content)
        /\ (last.arg.content = << <<"42">> >> /\ ~last.arg.isError) =>
              last.value = <<"42">>
        /\ (last.arg.content = << <<"boom">> >> /\ last.arg.isError) =>
              last.value = <<"Error calling tool: ", "boom">>

\* a flagged two-segment result came back as one marked string
C8_Witness ==
    /\ last.op = "call_mcp_tool"
    /\ last.outcome = "return"
    /\ last.arg.isError
    /\ last.arg.content = << <<"boom">>, <<"42">> >>
    /\ last.value = <<"Error calling tool: ", "boom", "\n", "42">>

\* C9: while setup() has not completed, get_tools(), get_context_data() and
\* every adapted tool function call raise UninitialisedMCPSessionError and
\* send nothing to the provider.
C9_UninitialisedBeforeSetup ==
    [][((GetToolsBegin \/ GetContextData
          \/ \E content \in ResultContents, e \in BOOLEAN : CallMcpTool(content, e))
        /\ lifecycle \in {"new", "failed"}) =>
            /\ last'.outcome = "UninitialisedMCPSessionError"
            /\ last'.requests = 0]_vars

(***************************************************************************)
(* Claims about tool calls (checked under SpecTool)                        *)
(***************************************************************************)
ToolCallOps == {"Tool.call", "wrap_tool_for_pydantic", "wrap_tool_func_for_pydantic"}

\* C10: a tool function that raises ToolError, called through Tool.call or a
\* framework wrapper, yields the returned string 'Error: <original message>';
\* the ToolError never leaves the wrapper, for plain and coroutine functions
\* alike.
C10_ToolErrorBecomesString ==
    (last.op \in ToolCallOps /\ tool.raises = "ToolError") =>
        /\ last.outcome = "return"
        /\ last.value = <<"Error: ">> \o tool.text

\* a plain (thread-offloaded) function raised ToolError inside the wrapper
C10_Witness ==
    /\ last.op = "wrap_tool_for_pydantic"
    /\ ~tool.coroutine
    /\ tool.raises = "ToolError"
    /\ last.value = <<"Error: ", "Test error message">>

(***************************************************************************)
(* Further claims about the AgentBuilder (checked under SpecBuilder)       *)
(***************************************************************************)
\* the capabilities of examples/agent_builder.py
ExampleCapabilityNames == {"file_system", "github_integration"}

\* C12: in every reachable state the tool names in the active tool list are
\* pairwise distinct across the enabled capabilities and none equals the
\* meta-tool name 'enable_capability'; stated for the states in which only
\* capabilities of the shipped example (file_system, and github_integration
\* with 'read_file' in its allow-list) are enabled.
C12_ToolNamesDistinct ==
    (/\ last.op = "get_tools"
     /\ last.outcome = "return"
     /\ \A c \in Caps : enabled[c] => capabilities[c].name \in ExampleCapabilityNames) =>
        \A j, k \in 1..Len(last.value) : j # k => last.value[j] # last.value[k]

C17_EnumNamesDisabled ==
    pydantic_tools.status = "built" =>
        \A k \in 1..Len(AdmittedTools) :
            AdmittedTools[k].name = MetaToolName =>
                AdmittedTools[k].enum =
                    [j \in 1..Len(disabled_capabilities) |->
                        capabilities[disabled_capabilities[j]].name]

\* C13: every capability whose setup() was started by entering the builder
\* scope has had teardown() called once the scope has ended, whether it ended
\* normally, because the body raised, because a later capability's setup()
\* raised during entry, or because another capability's teardown() raised
\* during exit.
C13_StartedThenTornDown ==
    scope.phase = "ended" => scope.started \subseteq scope.torn_down

\* the sequence s back to front
Reverse(s) == [k \in 1..Len(s) |-> s[Len(s) + 1 - k]]

\* C21: entering the builder scope calls setup() exactly once per capability,
\* one after the other in registration order, and leaving the scope calls
\* teardown() exactly once per capability in reverse registration order.
C21_SetupForwardTeardownReverse ==
    /\ (last.op = "aenter" /\ last.outcome = "return") => scope.setup_calls = AllCaps
    /\ (last.op = "aexit" /\ last.outcome = "return") =>
          scope.teardown_calls = Reverse(AllCaps)

\* C27: while the builder scope is active, every enabled remote capability
\* of the lazy-session variant has an established session, whether it was
\* enabled at construction, through enable() or through the enable_capability
\* meta-tool; hence get_tools() inside the scope never raises the
\* uninitialised-session error.
C27_EnabledLazyHasSession ==
    /\ in_context =>
          \A c \in Caps : (capabilities[c].kind = "lazy" /\ enabled[c]) => mcp_active[c]
    /\ (in_context /\ last.op = "get_tools") =>
          last.outcome # "UninitialisedMCPSessionError"

\* C28: for any sequence of setup(), enable(), disable() and
\* enable_capability() calls on a remote capability within one builder scope,
\* opening its session is never started a second time without a teardown in
\* between.
C28_NoSecondEstablishment ==
    \A c \in Caps : IsRemote(c) => establishment[c] # "again"

(***************************************************************************)
(* Further claims about the remote capability (checked under SpecSession)  *)
(***************************************************************************)
\* C19: teardown() releases both the session and the transport, also when
\* closing the session raises or setup() failed part-way: once teardown() has
\* returned or raised, no transport that was opened is left unclosed and no
\* session is left open.
C19_TeardownReleasesBoth ==
    (last.op = "teardown" /\ last.outcome # "pending") =>
        /\ mcp_client # "open"
        /\ mcp_session \notin {"entered", "initialized"}

\* C20: teardown() closes the session before the transport - closing the
\* transport is never started before closing the session has finished - and
\* setup() opens them in the opposite order: the session is entered only on
\* an open transport and the handshake runs only on an entered session.
C20_SessionBeforeTransport ==
    /\ [][(mcp_client' # mcp_client /\ mcp_client' = "closing") =>
            mcp_session' = "closed"]_vars
    /\ [][(mcp_session' # mcp_session /\ mcp_session' = "entered") =>
            mcp_client' = "open"]_vars
    /\ [][(mcp_session' # mcp_session /\ mcp_session' = "initialized") =>
            (mcp_session = "entered" /\ mcp_client = "open")]_vars

\* a set-up capability was torn down completely: teardown() returned with
\* the session and the transport closed
C20_Witness ==
    /\ last.op = "teardown"
    /\ last.outcome = "return"
    /\ lifecycle = "down"
    /\ mcp_session = "closed"
    /\ mcp_client = "closed"

\* where the name t stands in the list `full`
PositionIn(full, t) == CHOOSE i \in 1..Len(full) : full[i] = t

\* ts holds the names of `full` that the configuration allows, each once, in
\* the order of `full`; all of `full` when no allow-list is configured
IsAllowedPartOf(ts, full) ==
    IF allowed_tools.none THEN ts = full
    ELSE /\ Range(ts) = Range(full) \cap allowed_tools.names
         /\ Len(ts) = Cardinality(Range(ts))
         /\ \A j, k \in 1..Len(ts) :
               j < k => PositionIn(full, ts[j]) < PositionIn(full, ts[k])

\* C22: the tool list a remote capability returns and caches is the
\* provider's full list filtered to the names in the configured allow-list,
\* in provider order; with no allow-list it is the provider's full list; a
\* provider tool whose name is outside a configured allow-list is never
\* exposed.
C22_AllowListFilter ==
    /\ [][GetToolsFinish =>
            /\ IsAllowedPartOf(last'.value, ProviderTools(fetch_version))
            /\ cached_tools' = Cached(last'.value)]_vars
    /\ []((last.op = "get_tools" /\ last.outcome = "return") =>
            \A t \in Range(last.value) :
                allowed_tools.none \/ t \in allowed_tools.names)
    /\ [](cached_tools.present =>
            \A t \in Range(cached_tools.value) :
                allowed_tools.none \/ t \in allowed_tools.names)

\* the provider listed a tool outside the allow-list between two allowed
\* ones, and the call returned the allowed ones in the provider's order
C22_Witness ==
    /\ last.op = "get_tools"
    /\ last.outcome = "return"
    /\ last.requests = 1
    /\ ~allowed_tools.none
    /\ "delete_repository" \in Range(ProviderTools(fetch_version))
    /\ last.value = <<"search_repositories", "read_file">>
    /\ cached_tools = Cached(last.value)

\* C23: a tool-list-changed notification clears only the tool-list cache and
\* leaves the resource-list cache unchanged; a resource-list-changed
\* notification clears only the resource-list cache and leaves the tool-list
\* cache unchanged; every other notification type leaves both unchanged.
C23_NotificationClearsOwnCache ==
    [][ReceivedNotification =>
          /\ notification = "tool_list_changed" =>
                (~cached_tools'.present /\ cached_resources' = cached_resources)
          /\ notification = "resource_list_changed" =>
                (~cached_resources'.present /\ cached_tools' = cached_tools)
          /\ notification \notin {"tool_list_changed", "resource_list_changed"} =>
                (cached_tools' = cached_tools /\ cached_resources' = cached_resources)]_vars

\* with both lists cached, a resource-list-changed notification was handled:
\* the resource cache is gone and the tool cache still holds its list
C23_Witness ==
    /\ last.op = "notification"
    /\ last.arg = "resource_list_changed"
    /\ last.value = {"_cached_list_all_resources"}
    /\ cached_tools.present
    /\ cached_tools.value # <<>>
    /\ ~cached_resources.present

\* C24: with resources=False get_context_data() returns the empty string and
\* issues neither a list_resources nor a read_resource request; with a URI
\* predicate read_resource is issued only for URIs the predicate accepts and
\* only those resources appear in the context data.
C24_ResourceInclusion ==
    /\ [][(GetContextData /\ include_resources = "False") =>
            /\ last'.outcome = "return"
            /\ last'.value = <<>>
            /\ last'.requests = 0
            /\ last'.reads = <<>>
            /\ cached_resources' = cached_resources]_vars
    /\ []((last.op = "get_context_data" /\ include_resources = "predicate") =>
            /\ \A uri \in Range(last.reads) : UriPredicate(uri)
            /\ \A uri \in Range(last.value) : UriPredicate(uri)
            /\ last.requests <= 1 + Len(last.reads))

\* under a predicate that accepts one of the two listed resources, the context
\* data came back with that resource only, after one list and one read request
C24_Witness ==
    /\ last.op = "get_context_data"
    /\ include_resources = "predicate"
    /\ last.outcome = "return"
    /\ last.requests = 2
    /\ last.reads = <<"repo://readme">>
    /\ last.value = <<"repo://readme">>
    /\ "repo://secrets" \in Range(cached_resources.value)

C25_SignatureFromSchema ==
    /\ last.op = "json_schema_to_signature" =>
          /\ Len(last.value) = Len(tool.properties)
          /\ \A name \in Range(tool.properties) :
                Cardinality({k \in 1..Len(last.value) : last.value[k].name = name}) = 1
          /\ \A k \in 1..Len(last.value) :
                ~last.value[k].has_default <=> last.value[k].name \in tool.required
          /\ \A j, k \in 1..Len(last.value) :
                (last.value[j].has_default /\ ~last.value[k].has_default) => k < j
    /\ (/\ last.op = "wrap_tool_func_for_pydantic.signature"
        /\ tool.first_param \in {"none", "ctx: RunContext", "param1: str"}
        /\ "ctx" \notin Range(tool.properties)) =>
          /\ last.outcome = "return"
          /\ Len(last.value) = 1 + Len(tool.properties)
          /\ last.value[1].name = "ctx"
          /\ Cardinality({k \in 1..Len(last.value) : last.value[k].name = "ctx"}) = 1
          /\ Tail(last.value) = json_schema_to_signature(tool)

(***************************************************************************)
(* Claims about the conversation loops (checked under SpecLoop)            *)
(***************************************************************************)
\* C15: an input beginning with '/' is never passed to the agent; '/quit',
\* '/exit' and '/q' in any letter case end the loop and leave the builder
\* scope; any other slash command is reported as unknown, leaves the message
\* history unchanged, and the loop goes on to read the next user input.
C15_SlashCommands ==
    /\ [](\A k \in 1..Len(message_history) : ~StartsWithSlash(message_history[k]))
    /\ [][(loop_pc = "top" /\ StartsWithSlash(prompt) /\ IsExitCommand(prompt)) =>
            /\ loop_pc' = "done"
            /\ message_history' = message_history
            /\ builder_scope = "entered" => builder_scope' = "exited"]_vars
    /\ [][(loop_pc = "top" /\ StartsWithSlash(prompt) /\ ~IsExitCommand(prompt)) =>
            /\ last'.value = <<"Unknown command: ">> \o prompt
            /\ message_history' = message_history
            /\ loop_pc' = "ask"]_vars

(***************************************************************************)
(* Claims about the file system capability (checked under SpecFiles)       *)
(***************************************************************************)
\* C16: every location create_file, read_file and expand_directory read from
\* or write to lies inside the root directory: an absolute path, and a
\* relative path that leads outside the root (through '..' segments), comes
\* back as an error result, and no file outside the root is read or created
\* and no directory outside it listed.
C16_StaysInsideRoot ==
    /\ last.op \in {"create_file", "read_file", "expand_directory"} =>
          /\ \A loc \in last.touched : InsideRoot(loc)
          /\ (IsAbsolute(last.arg) \/ ~InsideRoot(Resolve(RootDirectory, last.arg))) =>
                last.error
    /\ \A loc \in files \ InitialFiles : InsideRoot(loc)

(***************************************************************************)
(* Further claims about tool calls (checked under SpecTool)                *)
(***************************************************************************)
\* a call through one of the two framework wrappers
WrappedCall == CallFrameworkWrapper \/ CallPydanticWrapper

\* C11 (as stated): a wrapped tool call invokes the system-prompt builder
\* exactly once and overwrites the first message's prompt content with its
\* result when updates_system_prompt is true; when it is false the builder is
\* not invoked and the content is unchanged.
C11_PromptFollowsFlag ==
    [][WrappedCall =>
          IF tool.updates_system_prompt
          THEN last'.requests = 1 /\ prompt_content' = BuiltPrompt
          ELSE last'.requests = 0 /\ prompt_content' = prompt_content]_vars

\* C11 (amended): a wrapped tool call whose tool function returns invokes the
\* system-prompt builder exactly once and overwrites the first message's
\* prompt content with its result when updates_system_prompt is true; when the
\* flag is false the builder is not invoked and the content is unchanged,
\* whatever the function does.
C11_PromptFollowsFlagOnReturn ==
    [][WrappedCall =>
          /\ (tool.updates_system_prompt /\ tool.raises = "none") =>
                (last'.requests = 1 /\ prompt_content' = BuiltPrompt)
          /\ ~tool.updates_system_prompt =>
                (last'.requests = 0 /\ prompt_content' = prompt_content)]_vars

\* a flagged tool returned through the wrapper and the prompt part now holds
\* the builder's text
C11_Witness ==
    /\ last.op = "wrap_tool_func_for_pydantic"
    /\ tool.updates_system_prompt
    /\ tool.raises = "none"
    /\ last.outcome = "return"
    /\ last.requests = 1
    /\ prompt_content = BuiltPrompt

\* C18: the system prompt is regenerated only after a successful tool call:
\* when a tool whose updates_system_prompt flag is set fails with ToolError,
\* the prompt builder is not invoked and the first message's prompt content is
\* left unchanged.
C18_NoRefreshAfterToolError ==
    [][(WrappedCall /\ tool.updates_system_prompt /\ tool.raises = "ToolError") =>
          (last'.requests = 0 /\ prompt_content' = prompt_content)]_vars

(***************************************************************************)
(* Reset and notification races of the remote capability (SpecSession)     *)
(***************************************************************************)
\* C29: teardown() returns a remote capability to its initial unconnected
\* state: once it has returned, session access raises the uninitialised-
\* session error (_mcp_session is None again) and both list caches are empty,
\* so the first tool-list call after a later setup() queries the new session.
C29_TeardownResetsCapability ==
    /\ [](( /\ last.op = "teardown"
            /\ last.outcome = "return" ) =>
              /\ SessionIsNone
              /\ ~cached_tools.present
              /\ ~cached_resources.present)
    /\ [][( /\ last.op = "setup"
            /\ last.outcome = "return"
            /\ last'.op = "get_tools"
            /\ pc = "idle" ) => last'.requests = 1]_vars

\* C30: a tool list fetched before a tool-list-changed notification is never
\* served from the cache after it: when a list_tools fetch has just completed
\* and a notification about a newer provider list was handled while it was in
\* flight, the next get_tools() call sends a fresh list_tools request.
C30_NoStaleListAfterNotification ==
    [][( /\ last.op = "get_tools"
         /\ last.outcome = "return"
         /\ last.requests = 1
         /\ fetch_version < provider_version
         /\ notification # "tool_list_changed"
         /\ pc = "idle"
         /\ last'.op = "get_tools"
         /\ last' # last ) => last'.requests = 1]_vars

====
